---- MODULE Spec2Model ----
(***************************************************************************)
(* The weekly schedule grid of src/src/ScheduleTable.tsx as a state        *)
(* machine: the time axis TIMES, the colour assignment getColor, the       *)
(* derived activeTableId, the positioned blocks of DraggableSchedule, the  *)
(* cell click targets and the delete confirmation.                         *)
(*                                                                         *)
(* Strings that the code takes apart (table ids, draggable ids) are        *)
(* sequences of one-character strings.  Day labels are written in ASCII:   *)
(* "Mon" .. "Fri" stand for the five weekday tokens of the day set, "Sun"  *)
(* for a label outside it.  An optional value (undefined / null in the     *)
(* code) is the empty sequence None, a present value v is Some(v).         *)
(***************************************************************************)
EXTENDS Integers, Sequences, FiniteSets, TLC

VARIABLES
  cellSize,     \* CellSize of constants.ts: [WIDTH, HEIGHT], fixed at load
  baseTime,     \* minute of the day that parseHnM shows for the value 0
  times,        \* the module constant TIMES, built once at load
  schedulesMap, \* the collaborator's store: tableId -> list of Schedule
  wired,        \* tableId -> whether the onScheduleTimeClick prop is given
  active,       \* dndContext.active?.id: None, or Some(draggable id)
  scene,        \* tableId -> what the last render pass of that table drew
  event,        \* the user event handled last
  calls,        \* the collaborator callbacks that event invoked, in order
  preDrag       \* the store as it was when the drag in progress started;
                \* the store itself while no drag is in progress

vars ==
  <<cellSize, baseTime, times, schedulesMap, wired, active, scene, event,
    calls, preDrag>>

----------------------------------------------------------------------------
(* Bounds of the model.                                                    *)

\* longest schedule list of a table in the drag and grid specifications
MaxSchedules == 2
\* longest range of a schedule in the geometry specification
MaxRangeLen == 3
\* longest schedule list in the colour specification
MaxColorList == 7

----------------------------------------------------------------------------
(* Optional values and the JavaScript helpers the code relies on.          *)

None == <<>>

Some(v) == <<v>>

\* Array.prototype.indexOf: 0-based index of the first match, -1 if none
RECURSIVE IndexFrom(_, _, _)
IndexFrom(seq, x, k) ==
  IF k > Len(seq) THEN -1
  ELSE IF seq[k] = x THEN k - 1
  ELSE IndexFrom(seq, x, k + 1)

indexOf(seq, x) == IndexFrom(seq, x, 1)

\* [...new Set(array)]: the distinct elements in order of first insertion
RECURSIVE SetInsert(_, _, _)
SetInsert(seq, k, acc) ==
  IF k > Len(seq) THEN acc
  ELSE SetInsert(seq, k + 1,
                 IF indexOf(acc, seq[k]) >= 0 THEN acc
                 ELSE Append(acc, seq[k]))

UniqueInOrder(seq) == SetInsert(seq, 1, <<>>)

\* String(n) for an integer n >= 0: its decimal digits
Digit(d) == SubSeq(<<"0", "1", "2", "3", "4", "5", "6", "7", "8", "9">>,
                   d + 1, d + 1)

RECURSIVE NumberToString(_)
NumberToString(n) ==
  IF n < 10 THEN Digit(n)
  ELSE NumberToString(n \div 10) \o Digit(n % 10)

\* str.split(":")[0]: the characters before the first ":", all if none
RECURSIVE SplitFirst(_, _)
SplitFirst(str, k) ==
  IF k > Len(str) THEN str
  ELSE IF str[k] = ":" THEN SubSeq(str, 1, k - 1)
  ELSE SplitFirst(str, k + 1)

\* the remainder operator of JavaScript for a positive divisor
JSRem(a, b) == IF a >= 0 THEN a % b ELSE 0 - ((0 - a) % b)

----------------------------------------------------------------------------
(* constants.ts and utils.ts (imported at lines 15 and 17).                *)

DAY_LABELS == <<"Mon", "Tue", "Wed", "Thu", "Fri">>

\* one minute, the unit of the time axis
MINUTE == 1

\* the candidate cell sizes; the width of 80 is the one the scenarios use
CellSizes == {[WIDTH |-> 80, HEIGHT |-> 30], [WIDTH |-> 80, HEIGHT |-> 24]}

\* the clock times the axis may start at
BaseTimes == {0, 9 * 60}

\* parseHnM: the HH:MM clock reading of a time value
parseHnM(v) ==
  [hh |-> ((baseTime + v \div MINUTE) \div 60) % 24,
   mm |-> (baseTime + v \div MINUTE) % 60]

----------------------------------------------------------------------------
(* TIMES, lines 29-39.                                                     *)

TIMES_Stride50 ==
  [k \in 1..18 |->
     LET v == 0 + (k - 1) * 30 * MINUTE
     IN  [from |-> parseHnM(v), to |-> parseHnM(v + 30 * MINUTE)]]
  \o
  [k \in 1..6 |->
     LET v == 18 * 30 * MINUTE + (k - 1) * 50 * MINUTE
     IN  [from |-> parseHnM(v), to |-> parseHnM(v + 50 * MINUTE)]]

TIMES ==
  [k \in 1..18 |->
     LET v == 0 + (k - 1) * 30 * MINUTE
     IN  [from |-> parseHnM(v), to |-> parseHnM(v + 30 * MINUTE)]]
  \o
  [k \in 1..6 |->
     LET v == 18 * 30 * MINUTE + (k - 1) * 55 * MINUTE
     IN  [from |-> parseHnM(v), to |-> parseHnM(v + 50 * MINUTE)]]

----------------------------------------------------------------------------
(* getColor, lines 52-56.                                                  *)

colors == <<"#fdd", "#ffd", "#dff", "#ddf", "#fdf", "#dfd">>

LectureIds(schedules) ==
  [k \in 1..Len(schedules) |-> schedules[k].lecture.id]

\* a plausible slip: the index is taken in the list with its duplicates
getColor_NoSet(schedules, lectureId) ==
  LET lectures == LectureIds(schedules)
      k == JSRem(indexOf(lectures, lectureId), Len(colors))
  IN  IF k < 0 THEN "undefined" ELSE colors[k + 1]

getColor(schedules, lectureId) ==
  LET lectures == UniqueInOrder(LectureIds(schedules))
      k == JSRem(indexOf(lectures, lectureId), Len(colors))
  IN  IF k < 0 THEN "undefined" ELSE colors[k + 1]

----------------------------------------------------------------------------
(* activeTableId, lines 64-70.                                             *)

\* a plausible slip: no test of activeId, so String(undefined) is split
activeTableId_NoTest(activeId) ==
  IF activeId # None
  THEN Some(SplitFirst(activeId[1], 1))
  ELSE Some(<<"u", "n", "d", "e", "f", "i", "n", "e", "d">>)

\* a draggable id is never the empty string, so "if (activeId)" tests presence
activeTableId(activeId) ==
  IF activeId # None /\ activeId[1] # <<>>
  THEN Some(SplitFirst(activeId[1], 1))
  ELSE None

----------------------------------------------------------------------------
(* DraggableSchedule, lines 150-198.  A JavaScript number that may be NaN  *)
(* is [nan, val].                                                          *)

NaN == [nan |-> TRUE, val |-> 0]

Num(n) == [nan |-> FALSE, val |-> n]

leftIndex_First(day) == 0

leftIndex(day) == indexOf(DAY_LABELS, day)

topIndex_NoOffset(range) == IF Len(range) = 0 THEN NaN ELSE Num(range[1])

\* range[0] is undefined for an empty range, and undefined - 1 is NaN
topIndex(range) == IF Len(range) = 0 THEN NaN ELSE Num(range[1] - 1)

size_Last(range) == IF Len(range) = 0 THEN 0 ELSE range[Len(range)]

size(range) == Len(range)

\* the Box of lines 167-181; lengths are in px
DraggableSchedule(id, data, bg) ==
  [id     |-> id,
   data   |-> data,
   left   |-> 120 + (cellSize.WIDTH * leftIndex(data.day)) + 1,
   top    |-> IF topIndex(data.range).nan THEN NaN
              ELSE Num(40 + (topIndex(data.range).val * cellSize.HEIGHT + 1)),
   width  |-> cellSize.WIDTH - 1,
   height |-> cellSize.HEIGHT * size(data.range) - 1,
   bg     |-> bg]

----------------------------------------------------------------------------
(* ScheduleTable, lines 45-144.                                            *)

\* `${tableId}:${index}`, line 136
BlockId(tableId, index) == tableId \o <<":">> \o NumberToString(index)

\* one render pass of the table tableId over a snapshot of its props
ScheduleTable(tableId, schedules, activeId) ==
  [activeTableId |-> activeTableId(activeId),
   outline       |-> activeTableId(activeId) = Some(tableId),
   rows          |-> Len(times),
   blocks        |->
     [index \in 1..Len(schedules) |->
        DraggableSchedule(BlockId(tableId, index - 1), schedules[index],
                          getColor(schedules, schedules[index].lecture.id))]]

\* every mounted table renders again when the store or the drag context changes
RenderAll(map, activeId) ==
  [t \in DOMAIN map |-> ScheduleTable(t, map[t], activeId)]

----------------------------------------------------------------------------
(* The collaborators: the schedule store behind useScheduleContext (line   *)
(* 46) and the drag context behind useDndContext (line 58).                *)

NoCall ==
  [fn |-> "none", tableId |-> <<>>, lectureId |-> "", day |-> "", time |-> 0]

\* removeSchedule(tableId, lectureId) of the store: every entry of that
\* lecture leaves that table, nothing else changes
RECURSIVE WithoutLecture(_, _)
WithoutLecture(schedules, lectureId) ==
  IF schedules = <<>> THEN <<>>
  ELSE IF Head(schedules).lecture.id = lectureId
       THEN WithoutLecture(Tail(schedules), lectureId)
       ELSE <<Head(schedules)>> \o WithoutLecture(Tail(schedules), lectureId)

removeSchedule(map, tableId, lectureId) ==
  [t \in DOMAIN map |->
     IF t = tableId THEN WithoutLecture(map[t], lectureId) ELSE map[t]]

\* the store after the callbacks of one event, applied in order
RECURSIVE Apply(_, _)
Apply(map, cs) ==
  IF cs = <<>> THEN map
  ELSE Apply(IF Head(cs).fn = "removeSchedule"
             THEN removeSchedule(map, Head(cs).tableId, Head(cs).lectureId)
             ELSE map,
             Tail(cs))

\* the drop handler of the drag context: the dragged entry takes the day and
\* the range of the drop target, every other entry stays
MoveEntry(map, id, target) ==
  [t \in DOMAIN map |->
     [i \in 1..Len(map[t]) |->
        IF BlockId(t, i - 1) = id
        THEN [map[t][i] EXCEPT !.day = target.day, !.range = target.range]
        ELSE map[t][i]]]

----------------------------------------------------------------------------
(* The callbacks of ScheduleTable.                                         *)

handleDeleteSchedule_Title(tableId, schedule) ==
  <<[NoCall EXCEPT !.fn = "removeSchedule", !.tableId = tableId,
                   !.lectureId = schedule.lecture.title]>>

\* lines 76-78
handleDeleteSchedule(tableId, schedule) ==
  <<[NoCall EXCEPT !.fn = "removeSchedule", !.tableId = tableId,
                   !.lectureId = schedule.lecture.id]>>

onClick_KeyOffset(isWired, day, timeIndex) ==
  IF isWired
  THEN <<[NoCall EXCEPT !.fn = "onScheduleTimeClick", !.day = day,
                        !.time = timeIndex + 2]>>
  ELSE <<>>

\* line 126: onScheduleTimeClick?.({ day, time: timeIndex + 1 })
onClick(isWired, day, timeIndex) ==
  IF isWired
  THEN <<[NoCall EXCEPT !.fn = "onScheduleTimeClick", !.day = day,
                        !.time = timeIndex + 1]>>
  ELSE <<>>

----------------------------------------------------------------------------
(* The events.                                                             *)

NoEvent ==
  [type |-> "load", table |-> <<>>, index |-> 0, day |-> "", timeIndex |-> 0]

Fixed == UNCHANGED <<cellSize, baseTime, times, wired>>

\* a click on the grid cell of row timeIndex and column day, lines 107-130;
\* the pointer is free, so no drag is in progress
Click(t, timeIndex, day) ==
  /\ active = None
  /\ t \in DOMAIN schedulesMap
  /\ timeIndex \in 0..(Len(times) - 1)
  /\ \E d \in 1..Len(DAY_LABELS) : DAY_LABELS[d] = day
  /\ event' = [NoEvent EXCEPT !.type = "click", !.table = t, !.day = day,
                              !.timeIndex = timeIndex]
  /\ calls' = onClick(wired[t], day, timeIndex)
  /\ schedulesMap' = Apply(schedulesMap, calls')
  /\ scene' = IF schedulesMap' = schedulesMap THEN scene
              ELSE RenderAll(schedulesMap', active)
  /\ preDrag' = schedulesMap'
  /\ UNCHANGED active
  /\ Fixed

\* a click on the delete button of the popover of block index of table t,
\* lines 139 and 191
ConfirmDelete(t, index) ==
  /\ active = None
  /\ t \in DOMAIN schedulesMap
  /\ index \in 0..(Len(schedulesMap[t]) - 1)
  /\ event' = [NoEvent EXCEPT !.type = "delete", !.table = t, !.index = index]
  /\ calls' = handleDeleteSchedule(t, schedulesMap[t][index + 1])
  /\ schedulesMap' = Apply(schedulesMap, calls')
  /\ scene' = RenderAll(schedulesMap', active)
  /\ preDrag' = schedulesMap'
  /\ UNCHANGED active
  /\ Fixed

\* the drag context starts a drag of the draggable registered at line 159
DragStart(t, index) ==
  /\ active = None
  /\ t \in DOMAIN schedulesMap
  /\ index \in 0..(Len(schedulesMap[t]) - 1)
  /\ event' = [NoEvent EXCEPT !.type = "dragstart", !.table = t,
                              !.index = index]
  /\ active' = Some(BlockId(t, index))
  /\ preDrag' = schedulesMap
  /\ calls' = <<>>
  /\ scene' = RenderAll(schedulesMap, active')
  /\ UNCHANGED schedulesMap
  /\ Fixed

\* the drag ends on a drop target: the collaborator moves the entry
DragEnd(target) ==
  /\ active # None
  /\ event' = [NoEvent EXCEPT !.type = "dragend"]
  /\ active' = None
  /\ calls' = <<>>
  /\ schedulesMap' = MoveEntry(schedulesMap, active[1], target)
  /\ scene' = RenderAll(schedulesMap', active')
  /\ preDrag' = schedulesMap'
  /\ Fixed

\* the drag is aborted
DragCancel ==
  /\ active # None
  /\ event' = [NoEvent EXCEPT !.type = "dragcancel"]
  /\ active' = None
  /\ calls' = <<>>
  /\ scene' = RenderAll(schedulesMap, active')
  /\ preDrag' = schedulesMap
  /\ UNCHANGED schedulesMap
  /\ Fixed

\* the collaborator adds an entry to table t and the table renders again
AddSchedule(t, schedule, max) ==
  /\ active = None
  /\ t \in DOMAIN schedulesMap
  /\ Len(schedulesMap[t]) < max
  /\ event' = [NoEvent EXCEPT !.type = "add", !.table = t]
  /\ calls' = <<>>
  /\ schedulesMap' = [schedulesMap EXCEPT ![t] = Append(@, schedule)]
  /\ scene' = RenderAll(schedulesMap', active)
  /\ preDrag' = schedulesMap'
  /\ UNCHANGED active
  /\ Fixed

----------------------------------------------------------------------------
(* The inputs.                                                             *)

LectureNames == <<"L0", "L1", "L2", "L3", "L4", "L5", "L6">>

LectureTitles == <<"T0", "T1", "T2", "T3", "T4", "T5", "T6">>

Lecture(k) == [id |-> LectureNames[k + 1], title |-> LectureTitles[k + 1]]

Entry(day, range, k) == [day |-> day, range |-> range, lecture |-> Lecture(k)]

\* the slots first .. first + len - 1
Slots(first, len) == [j \in 1..len |-> first + j - 1]

\* all lists of at most max elements of S
ListsOf(S, max) == UNION {[1..n -> S] : n \in 0..max}

TableA == <<"a">>

\* table ids: plain ones, and one that holds the delimiter of the block id
TableIds == {<<"a">>, <<"b">>, <<"a", ":", "b">>}

TableSets == {T \in SUBSET TableIds : Cardinality(T) = 2}

\* two places that overlap in slot 2 of one day
Placements == {[day |-> "Mon", range |-> <<1, 2>>],
               [day |-> "Mon", range |-> <<2>>]}

DragSchedules == {Entry(p.day, p.range, k) : p \in Placements, k \in 0..1}

ValidDays == {DAY_LABELS[d] : d \in 1..Len(DAY_LABELS)}

\* every day of the day set and one label outside it; every contiguous range
\* of at most MaxRangeLen slots of the axis, the empty range included
GeomSchedules ==
  {s \in {Entry(day, Slots(first, len), 0) :
            day \in ValidDays \cup {"Sun"},
            first \in 1..24,
            len \in 0..MaxRangeLen} :
     IF s.range = <<>> THEN TRUE ELSE s.range[Len(s.range)] <= 24}

ColorSchedules == {Entry("Mon", <<1>>, k) : k \in 0..(Len(LectureNames) - 1)}

\* getColor compares lecture ids only for equality, so the lists of the colour
\* specification are taken up to a renaming of the lectures: the first entry
\* is of any lecture, and a lecture not seen yet is the cyclic successor of
\* the one seen last for the first time
SeenIds(schedules) == {schedules[k].lecture.id : k \in 1..Len(schedules)}

NextNewId(schedules) ==
  LectureNames[((indexOf(LectureNames, schedules[1].lecture.id)
                 + Cardinality(SeenIds(schedules))) % Len(LectureNames)) + 1]

Admissible(schedules, s) ==
  IF schedules = <<>> THEN TRUE
  ELSE s.lecture.id \in SeenIds(schedules) \cup {NextNewId(schedules)}

InitWith(cells, bases, tableSets, lists, wirings) ==
  /\ cellSize \in cells
  /\ baseTime \in bases
  /\ times = TIMES
  /\ \E T \in tableSets :
       /\ schedulesMap \in [T -> lists]
       /\ wired \in [T -> wirings]
  /\ active = None
  /\ scene = RenderAll(schedulesMap, active)
  /\ event = NoEvent
  /\ calls = <<>>
  /\ preDrag = schedulesMap

----------------------------------------------------------------------------
(* Several tables under one drag context.                                  *)

Init ==
  InitWith({[WIDTH |-> 80, HEIGHT |-> 30]}, {0}, TableSets,
           ListsOf(DragSchedules, MaxSchedules), {TRUE})

Next ==
  \/ \E t \in TableIds, index \in 0..(MaxSchedules - 1) : DragStart(t, index)
  \/ \E target \in Placements : DragEnd(target)
  \/ DragCancel
  \/ \E t \in TableIds, index \in 0..(MaxSchedules - 1) :
       ConfirmDelete(t, index)

Spec == Init /\ [][Next]_vars

(* One table, every event.                                                 *)

InitGrid ==
  InitWith({[WIDTH |-> 80, HEIGHT |-> 30]}, BaseTimes, {{TableA}},
           ListsOf(DragSchedules, MaxSchedules), BOOLEAN)

NextGrid ==
  \/ \E timeIndex \in 0..23, day \in ValidDays : Click(TableA, timeIndex, day)
  \/ \E index \in 0..(MaxSchedules - 1) : ConfirmDelete(TableA, index)
  \/ \E index \in 0..(MaxSchedules - 1) : DragStart(TableA, index)
  \/ \E target \in Placements : DragEnd(target)
  \/ DragCancel

SpecGrid == InitGrid /\ [][NextGrid]_vars

(* One table whose entries range over every day and range.                 *)

InitGeom == InitWith(CellSizes, {0}, {{TableA}}, {<<>>}, {TRUE})

\* the box of a block does not depend on the other entries of its table:
\* the table holds one entry at a time
NextGeom ==
  \/ \E s \in GeomSchedules : AddSchedule(TableA, s, 1)
  \/ ConfirmDelete(TableA, 0)

SpecGeom == InitGeom /\ [][NextGeom]_vars

(* One table whose entries range over seven lectures.                      *)

InitColor ==
  InitWith({[WIDTH |-> 80, HEIGHT |-> 30]}, {0}, {{TableA}}, {<<>>}, {TRUE})

NextColor ==
  \E s \in ColorSchedules :
    /\ Admissible(schedulesMap[TableA], s)
    /\ AddSchedule(TableA, s, MaxColorList)

SpecColor == InitColor /\ [][NextColor]_vars

----------------------------------------------------------------------------
(* The properties.                                                         *)

Tables == DOMAIN schedulesMap

ValidEntry(s) == s.day \in ValidDays /\ s.range # <<>>

\* C1: for every table id T and schedule index i, while the active id is the
\* block id "T:i" the derived active table id is T and exactly the table T
\* shows the outline; while the active id is null the derived id is null and
\* no table shows the outline.
C1_ActiveTableOutlined ==
  \A t \in Tables :
    /\ active = None =>
         scene[t].activeTableId = None /\ ~scene[t].outline
    /\ \A T \in Tables :
         \A i \in 0..(Len(schedulesMap[T]) - 1) :
           active = Some(BlockId(T, i)) =>
             /\ scene[t].activeTableId = Some(T)
             /\ scene[t].outline <=> (t = T)

\* The statement of C1 for the table ids that do not hold the delimiter ":".
C1_DelimiterFreeIds ==
  \A t \in Tables :
    /\ active = None =>
         scene[t].activeTableId = None /\ ~scene[t].outline
    /\ \A T \in Tables :
         \A i \in 0..(Len(schedulesMap[T]) - 1) :
           (active = Some(BlockId(T, i)) /\ \A c \in 1..Len(T) : T[c] # ":") =>
             /\ scene[t].activeTableId = Some(T)
             /\ scene[t].outline <=> (t = T)

\* C2: a drag that is started and then cancelled leaves the active id null,
\* no table outlined, and the store and the blocks of every table as they
\* were when the drag started.
C2_CancelRestores ==
  [][event'.type = "dragcancel" =>
       /\ active' = None
       /\ schedulesMap' = preDrag
       /\ \A t \in Tables :
            /\ scene'[t].activeTableId = None
            /\ ~scene'[t].outline
            /\ scene'[t].blocks = scene[t].blocks
            /\ Len(scene'[t].blocks) = Len(preDrag[t])]_vars

C2_Witness ==
  /\ event.type = "dragcancel"
  /\ active = None
  /\ \E t \in Tables : Len(schedulesMap[t]) = 2 /\ ~scene[t].outline

\* C3: a block of a valid day and a non-empty range has
\* left = 120 + dayIndex * cellWidth + 1 and
\* top = 40 + (range[0] - 1) * cellHeight + 1, dayIndex being the 0-based
\* place of the day in the day ordering; with cellWidth 80 the block of
\* ("Tue", [3,4,5]) has left = 201.
C3_LeftTop ==
  \A t \in Tables :
    \A i \in 1..Len(scene[t].blocks) :
      LET b == scene[t].blocks[i] IN
      ValidEntry(b.data) =>
        /\ \E d \in 1..Len(DAY_LABELS) :
             /\ DAY_LABELS[d] = b.data.day
             /\ b.left = 120 + (d - 1) * cellSize.WIDTH + 1
        /\ b.top = Num(40 + (b.data.range[1] - 1) * cellSize.HEIGHT + 1)
        /\ (b.data.day = "Tue" /\ b.data.range = <<3, 4, 5>>
            /\ cellSize.WIDTH = 80) => b.left = 201

C3_Witness ==
  \E t \in Tables :
    /\ Len(scene[t].blocks) = 1
    /\ scene[t].blocks[1].data.day = "Tue"
    /\ scene[t].blocks[1].data.range = <<3, 4, 5>>
    /\ scene[t].blocks[1].left = 201
    /\ scene[t].blocks[1].top = Num(40 + 2 * cellSize.HEIGHT + 1)

\* C4: a block of a valid day and a non-empty range has
\* height = cellHeight * len(range) - 1 and width = cellWidth - 1, whatever
\* the day and the first slot.
C4_WidthHeight ==
  \A t \in Tables :
    \A i \in 1..Len(scene[t].blocks) :
      LET b == scene[t].blocks[i] IN
      ValidEntry(b.data) =>
        /\ b.height = cellSize.HEIGHT * Len(b.data.range) - 1
        /\ b.width = cellSize.WIDTH - 1

C4_Witness ==
  \E t \in Tables :
    /\ Len(scene[t].blocks) = 1
    /\ scene[t].blocks[1].data.day = "Fri"
    /\ scene[t].blocks[1].data.range = <<22, 23, 24>>
    /\ scene[t].blocks[1].height = 3 * cellSize.HEIGHT - 1
    /\ scene[t].blocks[1].width = 79

\* C5: for a fixed range, the horizontal extents [left, left + width) of the
\* blocks of two distinct days of the day set never overlap.
C5_DaysDisjoint ==
  \A t \in Tables :
    \A i \in 1..Len(scene[t].blocks) :
      LET b == scene[t].blocks[i] IN
      ValidEntry(b.data) =>
        \A day \in ValidDays \ {b.data.day} :
          LET o == DraggableSchedule(b.id, [b.data EXCEPT !.day = day], b.bg)
          IN  \/ b.left + b.width <= o.left
              \/ o.left + o.width <= b.left

C5_Witness ==
  \E t \in Tables :
    /\ Len(scene[t].blocks) = 1
    /\ scene[t].blocks[1].data.day = "Wed"
    /\ scene[t].blocks[1].data.range = <<1, 2>>
    /\ scene[t].blocks[1].left = 281

\* the number of distinct lecture ids that occur before the first entry of
\* the lecture of entry i
FirstSeenRank(schedules, i) ==
  LET first == CHOOSE f \in 1..i :
                 /\ schedules[f].lecture.id = schedules[i].lecture.id
                 /\ \A g \in 1..(f - 1) :
                      schedules[g].lecture.id # schedules[i].lecture.id
  IN  Cardinality({schedules[g].lecture.id : g \in 1..(first - 1)})

\* C6: the colour of a block is palette[k mod 6], k being the place of its
\* lecture id among the unique lecture ids in first-seen order; so the
\* blocks of one lecture share a colour, every colour is of the palette, and
\* with 7 unique ids the first and the seventh share a colour.
C6_ColorByFirstSeen ==
  \A t \in Tables :
    LET list == schedulesMap[t]
        blocks == scene[t].blocks
    IN
    /\ Len(blocks) = Len(list)
    /\ \A i \in 1..Len(list) :
         /\ blocks[i].bg = colors[(FirstSeenRank(list, i) % 6) + 1]
         /\ blocks[i].bg \in {"#fdd", "#ffd", "#dff", "#ddf", "#fdf", "#dfd"}
         /\ \A j \in 1..Len(list) :
              list[i].lecture.id = list[j].lecture.id =>
                blocks[i].bg = blocks[j].bg
    /\ (Len(list) = 7 /\ Cardinality(SeenIds(list)) = 7) =>
         blocks[1].bg = blocks[7].bg

C6_Witness ==
  \E t \in Tables :
    /\ Len(schedulesMap[t]) = 7
    /\ Cardinality(SeenIds(schedulesMap[t])) = 7
    /\ schedulesMap[t][1].lecture.id = "L3"
    /\ schedulesMap[t][7].lecture.id = "L2"
    /\ scene[t].blocks[1].bg = "#fdd"
    /\ scene[t].blocks[7].bg = "#fdd"

\* C7: a click on the cell of 0-based row r (0..23) of day d invokes, on a
\* table with onScheduleTimeClick given, exactly onScheduleTimeClick({day: d,
\* time: r + 1}), a time in 1..24, and invokes nothing on a table without it.
C7_ClickReportsSlot ==
  event.type = "click" =>
    /\ event.timeIndex \in 0..23
    /\ IF wired[event.table]
       THEN /\ Len(calls) = 1
            /\ calls[1].fn = "onScheduleTimeClick"
            /\ calls[1].day = event.day
            /\ calls[1].time = event.timeIndex + 1
            /\ calls[1].time \in 1..24
       ELSE calls = <<>>

C7_Witness ==
  /\ event.type = "click"
  /\ event.timeIndex = 5
  /\ event.day = "Mon"
  /\ wired[event.table]
  /\ Len(calls) = 1
  /\ calls[1].day = "Mon"
  /\ calls[1].time = 6

\* C8: an entry whose day is outside the day set, or whose range is empty,
\* fails loudly: no rectangle is ever drawn for it.
C8_InvalidEntryNotDrawn ==
  \A t \in Tables :
    \A i \in 1..Len(scene[t].blocks) : ValidEntry(scene[t].blocks[i].data)

\* C9: the store changes only through the collaborator (removeSchedule on a
\* delete confirmation, the drop handler at the end of a drag); confirming
\* the delete of entry s of table T invokes exactly
\* removeSchedule(T, s.lecture.id) and changes nothing else; one block is
\* drawn per entry, overlapping entries included.
C9_OnlyCallbacksMutate ==
  [][/\ schedulesMap' # schedulesMap => event'.type \in {"delete", "dragend"}
     /\ event'.type = "delete" =>
          LET T == event'.table
              s == schedulesMap[T][event'.index + 1]
          IN  /\ Len(calls') = 1
              /\ calls'[1].fn = "removeSchedule"
              /\ calls'[1].tableId = T
              /\ calls'[1].lectureId = s.lecture.id
              /\ \A t \in Tables \ {T} : schedulesMap'[t] = schedulesMap[t]
              /\ \A k \in 1..Len(schedulesMap'[T]) :
                   schedulesMap'[T][k].lecture.id # s.lecture.id
              /\ Len(schedulesMap'[T]) =
                   Cardinality({k \in 1..Len(schedulesMap[T]) :
                                  schedulesMap[T][k].lecture.id # s.lecture.id})
              /\ active' = active
     /\ \A t \in Tables :
          /\ Len(scene'[t].blocks) = Len(schedulesMap'[t])
          /\ \A k \in 1..Len(schedulesMap'[t]) :
               scene'[t].blocks[k].data = schedulesMap'[t][k]]_vars

C9_Witness ==
  /\ event.type = "delete"
  /\ Len(calls) = 1
  /\ calls[1].fn = "removeSchedule"
  /\ calls[1].tableId = TableA
  /\ calls[1].lectureId = "L0"
  /\ Len(schedulesMap[TableA]) = 1
  /\ schedulesMap[TableA][1].lecture.id = "L1"
  /\ Len(scene[TableA].blocks) = 1

\* the clock reading of minute m of the day
Clock(m) == [hh |-> (m \div 60) % 24, mm |-> m % 60]

\* C10: the axis has exactly 24 rows; row k of 1..18 starts (k-1)*30 minutes
\* after the base time and spans 30 minutes, each starting where the
\* previous one ends; row 19+j of j in 0..5 starts 18*30 + j*55 minutes
\* after the base time and shows a span of 50 minutes; row 19 starts where
\* row 18 ends.
C10_TimeAxis ==
  /\ Len(times) = 24
  /\ \A k \in 1..18 :
       /\ times[k].from = Clock(baseTime + (k - 1) * 30)
       /\ times[k].to = Clock(baseTime + (k - 1) * 30 + 30)
       /\ k > 1 => times[k].from = times[k - 1].to
  /\ \A j \in 0..5 :
       /\ times[19 + j].from = Clock(baseTime + 18 * 30 + j * 55)
       /\ times[19 + j].to = Clock(baseTime + 18 * 30 + j * 55 + 50)
  /\ times[19].from = times[18].to

C10_Witness ==
  /\ event.type = "click"
  /\ event.timeIndex = 23
  /\ baseTime = 9 * 60
  /\ scene[TableA].rows = 24
  /\ times[1].from = [hh |-> 9, mm |-> 0]
  /\ times[19].from = [hh |-> 18, mm |-> 0]
  /\ times[24].from = [hh |-> 22, mm |-> 35]
  /\ times[24].to = [hh |-> 23, mm |-> 25]

====
